---------------------------- MODULE Spec2Model ----------------------------
(***************************************************************************)
(* State-machine model of the portfolio page script (Port_test/script.js): *)
(* the scroll-driven navigation highlighter, the skill reveal, the         *)
(* per-card image carousel, the mobile menu, the fade-in observer, the     *)
(* contact composer, the typing animation and the debounce and throttle    *)
(* utilities.  Strings are sequences of one-character strings, so   *)
(* that String.prototype.includes and encodeURIComponent are computed.     *)
(***************************************************************************)
EXTENDS Integers, Sequences, FiniteSets, TLC

\* ------------------------------------------------------------------ bounds
MaxIdLen == 2
MaxSections == 2
MaxLinks == 2
MaxImages == 4
MaxTicks == 5
MaxNextClicks == 3
MaxPrevClicks == 3
MaxCardEvents == 4
MaxFieldLen == 1
MaxBars == 2
MaxBlocks == 3
MaxPageCardEvents == 2
MaxPendingResets == 2
MaxTextLen == 3
MaxCalls == 3
MaxTime == 4

\* ------------------------------------------------------- program constants
LookaheadThreshold == 200
NavbarScrollThreshold == 100

\* ------------------------------------------------------------ input sets
Chars == {"a", "b"}
SectionTops == {0, 300}
ScrollOffsets == {0, 99, 100, 101}
Waits == {1, 2}
CallArgs == {"x", "y"}

RECURSIVE StringsOfLen(_)
StringsOfLen(n) ==
    IF n = 0 THEN {<< >>}
    ELSE {<<c>> \o s : c \in Chars, s \in StringsOfLen(n - 1)}

\* identifiers: the non-empty strings of at most MaxIdLen characters
IdStrings == UNION {StringsOfLen(n) : n \in 1..MaxIdLen}

\* a navigation link's href is "#" followed by its target identifier
Hrefs == {<<"#">> \o s : s \in IdStrings}

SeqsUpTo(S, n) == UNION {[1..k -> S] : k \in 1..n}

\* the page's sections: each has its own identifier
SectionMarkups ==
    {s \in SeqsUpTo([id : IdStrings, offsetTop : SectionTops], MaxSections) :
        \A i, j \in 1..Len(s) : i # j => s[i].id # s[j].id}

\* the navigation links: each link targets a different identifier
LinkMarkups ==
    {l \in SeqsUpTo([href : Hrefs], MaxLinks) :
        \A i, j \in 1..Len(l) : i # j => l[i].href # l[j].href}

\* ------------------------------------------------------------------ state
VARIABLES
    sections,        \* document.querySelectorAll('section'): id, offsetTop
    navLinks,        \* document.querySelectorAll('.nav-link'): href
    linkActive,      \* per link: classList contains 'active'
    scrollY,         \* window.scrollY
    navbarScrolled,  \* navbar.classList contains 'scrolled'
    scrollTimer,     \* "null", "pending" (timeout armed) or "fired"
    settlePending,   \* number of armed timeouts holding the settle callback
    settleRuns,      \* history: settle callbacks run since the last scroll event
    settleCancelled, \* history: the last scroll event cleared an armed timeout
    skillBars,       \* '.skill-progress' elements: top, height, progress
    innerHeight,     \* window.innerHeight
    barWidth,        \* per bar: inline style.width (set, pct)
    barAnimated,     \* per bar: classList contains 'animated'
    cards,           \* '.project-card' markup: n images, controls
    currentImageIndex, \* per card: the closure's currentImageIndex
    imgActive,       \* per card, per image: classList contains 'active'
    imageNavDisplay, \* per card: style.display of '.image-nav'
    prevListener,    \* per card: click listener attached to .prev-btn
    nextListener,    \* per card: click listener attached to .next-btn
    intervalSet,     \* per card: setInterval registered (never cleared)
    ticks,           \* history: timer callbacks run, per card
    nextClicks,      \* history: clicks on .next-btn, per card
    prevClicks,      \* history: clicks on .prev-btn, per card
    lastOp,          \* history: the handler that ran last
    oldIndex,        \* history: currentImageIndex before the last handler
    hooks,           \* which markup hooks the page has
    listeners,       \* the listeners the DOMContentLoaded handler registered
    hamburgerActive, \* hamburger.classList contains 'active'
    navMenuActive,   \* navMenu.classList contains 'active'
    menuWasOpen,     \* history: hamburgerActive before the last menu click
    formFields,      \* the contact form's name, email, subject, message
    buttonLabel,     \* the submit button's innerHTML
    buttonBackground, \* the submit button's style.background
    fieldDefaults,   \* the fields' default values, restored by reset()
    resetTimers,     \* armed 3000 ms timeouts: the originalText each captured
    locationHref,    \* the last mailto link assigned to window.location.href
    fadeVisible,     \* per observed block: classList contains 'visible'
    lastEntries,     \* history: the entries of the last observer callback
    typingOriginal,  \* typeWriter's const text
    typingShown,     \* typingText.textContent
    typingI,         \* typeWriter's let i
    typingTimer,     \* the timeout armed by the animation: "none", "typeWriter", "cursor"
    typingPosition,  \* typingText.style.position
    typingTicks,     \* history: runs of typeWriter
    now,             \* the clock the utilities' timeouts are measured on
    debounced,       \* debounce(func, wait) has returned its wrapper
    debWait,         \* the wrapper's wait
    debTimeout,      \* the wrapper's let timeout: the last timer id, 0 if undefined
    debTimers,       \* pending timeouts of the wrapper: [id, due, args]
    debCalls,        \* history: calls of the wrapper
    debLastCall,     \* history: [args, at] of the most recent call
    debInBurst,      \* history: a call was made since the last invocation of func
    debBursts,       \* history: bursts of calls begun
    debInvoked,      \* history: func's invocations, [args, at]
    throttled,       \* throttle(func, limit) has returned its wrapper
    thrLimit,        \* the wrapper's limit
    inThrottle,      \* the wrapper's let inThrottle
    thrTimers,       \* due times of the wrapper's pending timeouts
    thrLog,          \* history: the wrapper's calls, [args, at, open]
    thrInvoked       \* history: func's invocations, [args, at]

navVars == <<sections, navLinks, linkActive, scrollY, navbarScrolled, scrollTimer,
             settlePending, settleRuns, settleCancelled>>
skillVars == <<skillBars, innerHeight, barWidth, barAnimated>>
carouselVars == <<cards, currentImageIndex, imgActive, imageNavDisplay,
                  prevListener, nextListener, intervalSet>>
histVars == <<ticks, nextClicks, prevClicks, oldIndex>>
hookVars == <<hooks, listeners>>
menuVars == <<hamburgerActive, navMenuActive, menuWasOpen>>
formVars == <<formFields, fieldDefaults, buttonLabel, buttonBackground,
              resetTimers, locationHref>>
fadeVars == <<fadeVisible, lastEntries>>
typeVars == <<typingOriginal, typingShown, typingI, typingTimer, typingPosition,
              typingTicks>>
debounceVars == <<debounced, debWait, debTimeout, debTimers, debCalls, debLastCall,
                  debInBurst, debBursts, debInvoked>>
throttleVars == <<throttled, thrLimit, inThrottle, thrTimers, thrLog, thrInvoked>>
otherVars == <<typeVars, now, debounceVars, throttleVars>>
vars == <<navVars, skillVars, carouselVars, histVars, lastOp,
          hookVars, menuVars, formVars, fadeVars, otherVars>>

\* ------------------------------------------------------- string functions
\* String.prototype.includes: sub occurs in s at some position; the empty
\* string occurs in every string
Includes(s, sub) ==
    \E i \in 0..(Len(s) - Len(sub)) : SubSeq(s, i + 1, i + Len(sub)) = sub

\* href.substring(1): the link's target identifier
TargetId(href) == SubSeq(href, 2, Len(href))

\* -------------------------------------------------- navigation highlighter
\* the forEach over sections: current starts as '' and is overwritten by
\* every section with scrollY >= offsetTop - 200, so the last one stays
RECURSIVE ScanSections(_, _, _, _)
ScanSections(secs, y, k, current) ==
    IF k > Len(secs) THEN current
    ELSE ScanSections(secs, y, k + 1,
            IF y >= secs[k].offsetTop - LookaheadThreshold
            THEN secs[k].id ELSE current)

CurrentSection(secs, y) == ScanSections(secs, y, 1, << >>)

\* the forEach over links: remove 'active', add it back if href includes current
LinkMatches(href, current) == Includes(href, current)

UpdateActiveNav(secs, links, y) ==
    [i \in 1..Len(links) |-> LinkMatches(links[i].href, CurrentSection(secs, y))]

NavbarEffect(y) == y > NavbarScrollThreshold

\* ------------------------------------------------------------ skill reveal
\* mutant: any overlap with the viewport counts as visible
BarVisiblePartial(bar, y, h) ==
    LET top == bar.top - y
        bottom == bar.top - y + bar.height
    IN  bottom > 0 /\ top < h

\* rect.top >= 0 && rect.bottom <= window.innerHeight, the rectangle being
\* the bar's place in the document moved up by the scroll offset
BarVisible(bar, y, h) ==
    LET top == bar.top - y
        bottom == bar.top - y + bar.height
    IN  top >= 0 /\ bottom <= h

AnimateSkillsWidth(bars, y, h, width, animated) ==
    [i \in 1..Len(bars) |->
        IF BarVisible(bars[i], y, h) /\ ~animated[i]
        THEN [set |-> TRUE, pct |-> bars[i].progress]
        ELSE width[i]]

\* mutant: the 'animated' class follows the bar's visibility
AnimateSkillsFlagFollows(bars, y, h, animated) ==
    [i \in 1..Len(bars) |-> BarVisible(bars[i], y, h)]

AnimateSkillsFlag(bars, y, h, animated) ==
    [i \in 1..Len(bars) |-> animated[i] \/ BarVisible(bars[i], y, h)]

\* ---------------------------------------------------------- image carousel
\* JavaScript's %: the remainder takes the sign of the dividend
JsMod(a, b) == IF a >= 0 THEN a % b ELSE 0 - ((0 - a) % b)

\* mutant: the previous step without the "+ images.length"
PrevIndexNoWrap(i, n) == JsMod(i - 1, n)

\* (currentImageIndex - 1 + images.length) % images.length
PrevIndex(i, n) == JsMod(i - 1 + n, n)

\* mutant: the next step without the "% images.length"
NextIndexNoWrap(i, n) == i + 1

\* (currentImageIndex + 1) % images.length
NextIndex(i, n) == JsMod(i + 1, n)

\* mutant: showImage without the removal of the old marker
ShowImageKeepsOld(active, index) ==
    [k \in 1..Len(active) |-> active[k] \/ k = index + 1]

\* showImage(index): remove 'active' from every image, then add it to
\* images[index]; with no such image the add throws after the removal
ShowImage(active, index) ==
    [k \in 1..Len(active) |-> k = index + 1]

\* the page's markup for one card: its images, its optional previous/next
\* controls and the '.image-nav' container the controls sit in
CardMarkups ==
    {c \in [n : 0..MaxImages, hasPrev : BOOLEAN, hasNext : BOOLEAN,
            hasImageNav : BOOLEAN] :
        (c.hasPrev \/ c.hasNext) => c.hasImageNav}

\* the markup's displayed marker: the first image of a card carries 'active'
InitialImgActive(n) == [k \in 1..n |-> k = 1]

\* mutant: the per-card setup without the "images.length <= 1" early return
SetupCardNoGuard(card) ==
    [display  |-> IF card.hasImageNav THEN "" ELSE "absent",
     prevL    |-> card.hasPrev,
     nextL    |-> card.hasNext,
     interval |-> TRUE]

\* the body of projectCards.forEach for one card: with at most one image
\* hide the navigation and return; otherwise attach the listeners that
\* exist and start the interval
SetupCard(card) ==
    IF card.n <= 1
    THEN [display  |-> IF card.hasImageNav THEN "none" ELSE "absent",
          prevL    |-> FALSE,
          nextL    |-> FALSE,
          interval |-> FALSE]
    ELSE [display  |-> IF card.hasImageNav THEN "" ELSE "absent",
          prevL    |-> card.hasPrev,
          nextL    |-> card.hasNext,
          interval |-> TRUE]

Card(c) == c \in 1..Len(cards)

\* a click on the card's .prev-btn
PrevClick(c) ==
    /\ Card(c)
    /\ cards[c].hasPrev
    /\ prevClicks[c] < MaxPrevClicks
    /\ prevClicks' = [prevClicks EXCEPT ![c] = @ + 1]
    /\ oldIndex' = [oldIndex EXCEPT ![c] = currentImageIndex[c]]
    /\ lastOp' = [op |-> "prev", card |-> c]
    /\ IF prevListener[c]
       THEN LET idx == PrevIndex(currentImageIndex[c], cards[c].n)
            IN  /\ currentImageIndex' = [currentImageIndex EXCEPT ![c] = idx]
                /\ imgActive' = [imgActive EXCEPT ![c] = ShowImage(@, idx)]
       ELSE UNCHANGED <<currentImageIndex, imgActive>>
    /\ UNCHANGED <<cards, imageNavDisplay, prevListener, nextListener, intervalSet>>
    /\ UNCHANGED <<ticks, nextClicks>>
    /\ UNCHANGED <<navVars, skillVars, hookVars, menuVars, formVars, fadeVars, otherVars>>

\* mutant: a next click that also clears the card's interval
NextClickClearsTimer(c) ==
    /\ Card(c)
    /\ cards[c].hasNext
    /\ nextClicks[c] < MaxNextClicks
    /\ nextClicks' = [nextClicks EXCEPT ![c] = @ + 1]
    /\ oldIndex' = [oldIndex EXCEPT ![c] = currentImageIndex[c]]
    /\ lastOp' = [op |-> "next", card |-> c]
    /\ intervalSet' = [intervalSet EXCEPT ![c] = FALSE]
    /\ IF nextListener[c]
       THEN LET idx == NextIndex(currentImageIndex[c], cards[c].n)
            IN  /\ currentImageIndex' = [currentImageIndex EXCEPT ![c] = idx]
                /\ imgActive' = [imgActive EXCEPT ![c] = ShowImage(@, idx)]
       ELSE UNCHANGED <<currentImageIndex, imgActive>>
    /\ UNCHANGED <<cards, imageNavDisplay, prevListener, nextListener>>
    /\ UNCHANGED <<ticks, prevClicks>>
    /\ UNCHANGED <<navVars, skillVars, hookVars, menuVars, formVars, fadeVars, otherVars>>

\* a click on the card's .next-btn
NextClick(c) ==
    /\ Card(c)
    /\ cards[c].hasNext
    /\ nextClicks[c] < MaxNextClicks
    /\ nextClicks' = [nextClicks EXCEPT ![c] = @ + 1]
    /\ oldIndex' = [oldIndex EXCEPT ![c] = currentImageIndex[c]]
    /\ lastOp' = [op |-> "next", card |-> c]
    /\ IF nextListener[c]
       THEN LET idx == NextIndex(currentImageIndex[c], cards[c].n)
            IN  /\ currentImageIndex' = [currentImageIndex EXCEPT ![c] = idx]
                /\ imgActive' = [imgActive EXCEPT ![c] = ShowImage(@, idx)]
       ELSE UNCHANGED <<currentImageIndex, imgActive>>
    /\ UNCHANGED <<cards, imageNavDisplay, prevListener, nextListener, intervalSet>>
    /\ UNCHANGED <<ticks, prevClicks>>
    /\ UNCHANGED <<navVars, skillVars, hookVars, menuVars, formVars, fadeVars, otherVars>>

\* mutant: an interval callback that restarts the rotation at index 0
TimerTickRestarts(c) ==
    /\ Card(c)
    /\ intervalSet[c]
    /\ ticks[c] < MaxTicks
    /\ ticks' = [ticks EXCEPT ![c] = @ + 1]
    /\ oldIndex' = [oldIndex EXCEPT ![c] = currentImageIndex[c]]
    /\ lastOp' = [op |-> "tick", card |-> c]
    /\ currentImageIndex' = [currentImageIndex EXCEPT ![c] = 0]
    /\ imgActive' = [imgActive EXCEPT ![c] = ShowImage(@, 0)]
    /\ UNCHANGED <<cards, imageNavDisplay, prevListener, nextListener, intervalSet>>
    /\ UNCHANGED <<nextClicks, prevClicks>>
    /\ UNCHANGED <<navVars, skillVars, hookVars, menuVars, formVars, fadeVars, otherVars>>

\* mutant: an interval callback working on an index shared by all cards
TimerTickSharedIndex(c) ==
    /\ Card(c)
    /\ intervalSet[c]
    /\ ticks[c] < MaxTicks
    /\ ticks' = [ticks EXCEPT ![c] = @ + 1]
    /\ oldIndex' = [oldIndex EXCEPT ![c] = currentImageIndex[c]]
    /\ lastOp' = [op |-> "tick", card |-> c]
    /\ LET idx == NextIndex(currentImageIndex[c], cards[c].n)
       IN  /\ currentImageIndex' = [d \in 1..Len(cards) |-> idx]
           /\ imgActive' = [imgActive EXCEPT ![c] = ShowImage(@, idx)]
    /\ UNCHANGED <<cards, imageNavDisplay, prevListener, nextListener, intervalSet>>
    /\ UNCHANGED <<nextClicks, prevClicks>>
    /\ UNCHANGED <<navVars, skillVars, hookVars, menuVars, formVars, fadeVars, otherVars>>

\* one firing of the card's 5000 ms interval callback
TimerTick(c) ==
    /\ Card(c)
    /\ intervalSet[c]
    /\ ticks[c] < MaxTicks
    /\ ticks' = [ticks EXCEPT ![c] = @ + 1]
    /\ oldIndex' = [oldIndex EXCEPT ![c] = currentImageIndex[c]]
    /\ lastOp' = [op |-> "tick", card |-> c]
    /\ LET idx == NextIndex(currentImageIndex[c], cards[c].n)
       IN  /\ currentImageIndex' = [currentImageIndex EXCEPT ![c] = idx]
           /\ imgActive' = [imgActive EXCEPT ![c] = ShowImage(@, idx)]
    /\ UNCHANGED <<cards, imageNavDisplay, prevListener, nextListener, intervalSet>>
    /\ UNCHANGED <<nextClicks, prevClicks>>
    /\ UNCHANGED <<navVars, skillVars, hookVars, menuVars, formVars, fadeVars, otherVars>>

\* ------------------------------------------------------------ scroll events
\* mutant: the armed timeout is left armed
ClearTimeoutSkipped(timer, pending) == pending

\* if (scrollTimer !== null) clearTimeout(scrollTimer): an armed timeout is
\* cancelled; null is skipped and a timeout that has fired is not armed
ClearTimeout(timer, pending) ==
    IF timer = "pending" THEN pending - 1 ELSE pending

\* one scroll event to offset y: the 'scroll' listeners that were registered
\* run in the order they were added (navbar effect, updateActiveNav,
\* animateSkills, re-arm of the 10 ms settle timer); the navbar listener
\* throws before changing anything when there is no navbar
Scroll(y) ==
    /\ y # scrollY
    /\ scrollY' = y
    /\ navbarScrolled' = IF "navbarScroll" \in listeners /\ hooks.navbar
                         THEN NavbarEffect(y) ELSE navbarScrolled
    /\ linkActive' = IF "updateActiveNav" \in listeners
                     THEN UpdateActiveNav(sections, navLinks, y) ELSE linkActive
    /\ barWidth' = IF "animateSkills" \in listeners
                   THEN AnimateSkillsWidth(skillBars, y, innerHeight, barWidth, barAnimated)
                   ELSE barWidth
    /\ barAnimated' = IF "animateSkills" \in listeners
                      THEN AnimateSkillsFlag(skillBars, y, innerHeight, barAnimated)
                      ELSE barAnimated
    /\ IF "scrollSettle" \in listeners
       THEN /\ settlePending' = ClearTimeout(scrollTimer, settlePending) + 1
            /\ settleCancelled' = (ClearTimeout(scrollTimer, settlePending) < settlePending)
            /\ scrollTimer' = "pending"
       ELSE UNCHANGED <<settlePending, settleCancelled, scrollTimer>>
    /\ settleRuns' = 0
    /\ lastOp' = [op |-> "scroll", card |-> 0]
    /\ UNCHANGED <<sections, navLinks, skillBars, innerHeight>>
    /\ UNCHANGED <<carouselVars, histVars, hookVars, menuVars, formVars, fadeVars, otherVars>>

\* mutant: updateActiveNav removes 'active' from every element carrying it,
\* the cards' images included
ScrollTimerFireClearsImages ==
    /\ settlePending > 0
    /\ settlePending' = settlePending - 1
    /\ scrollTimer' = IF settlePending = 1 THEN "fired" ELSE scrollTimer
    /\ settleRuns' = settleRuns + 1
    /\ linkActive' = UpdateActiveNav(sections, navLinks, scrollY)
    /\ imgActive' = [c \in 1..Len(cards) |-> [k \in 1..cards[c].n |-> FALSE]]
    /\ barWidth' = AnimateSkillsWidth(skillBars, scrollY, innerHeight, barWidth, barAnimated)
    /\ barAnimated' = AnimateSkillsFlag(skillBars, scrollY, innerHeight, barAnimated)
    /\ lastOp' = [op |-> "settle", card |-> 0]
    /\ UNCHANGED <<sections, navLinks, scrollY, navbarScrolled, skillBars, innerHeight>>
    /\ UNCHANGED <<settleCancelled>>
    /\ UNCHANGED <<cards, currentImageIndex, imageNavDisplay, prevListener,
                   nextListener, intervalSet>>
    /\ UNCHANGED <<histVars, hookVars, menuVars, formVars, fadeVars, otherVars>>

\* the settle timer's callback: updateActiveNav(); animateSkills();
\* the oldest armed timeout fires first
ScrollTimerFire ==
    /\ settlePending > 0
    /\ settlePending' = settlePending - 1
    /\ scrollTimer' = IF settlePending = 1 THEN "fired" ELSE scrollTimer
    /\ settleRuns' = settleRuns + 1
    /\ linkActive' = UpdateActiveNav(sections, navLinks, scrollY)
    /\ barWidth' = AnimateSkillsWidth(skillBars, scrollY, innerHeight, barWidth, barAnimated)
    /\ barAnimated' = AnimateSkillsFlag(skillBars, scrollY, innerHeight, barAnimated)
    /\ lastOp' = [op |-> "settle", card |-> 0]
    /\ UNCHANGED <<sections, navLinks, scrollY, navbarScrolled, skillBars, innerHeight>>
    /\ UNCHANGED <<settleCancelled>>
    /\ UNCHANGED <<carouselVars, histVars, hookVars, menuVars, formVars, fadeVars, otherVars>>

\* ------------------------------------------------------------ mobile menu
\* a click on the hamburger: toggle 'active' on it, then on the menu; with
\* no menu element the second statement throws after the first has run
HamburgerClick ==
    /\ "hamburgerClick" \in listeners
    /\ menuWasOpen' = hamburgerActive
    /\ hamburgerActive' = ~hamburgerActive
    /\ navMenuActive' = IF hooks.navMenu THEN ~navMenuActive ELSE navMenuActive
    /\ lastOp' = [op |-> "hamburger", card |-> 0]
    /\ UNCHANGED <<navVars, skillVars, carouselVars, histVars, hookVars, formVars, fadeVars, otherVars>>

\* mutant: a link click that closes the hamburger and forgets the menu
NavLinkClickHamburgerOnly(i) ==
    /\ i \in 1..Len(navLinks)
    /\ "navLinkClick" \in listeners
    /\ menuWasOpen' = hamburgerActive
    /\ hamburgerActive' = FALSE
    /\ navMenuActive' = navMenuActive
    /\ lastOp' = [op |-> "navlink", card |-> 0]
    /\ UNCHANGED <<navVars, skillVars, carouselVars, histVars, hookVars, formVars, fadeVars, otherVars>>

\* a click on navigation link i: remove 'active' from the hamburger, then
\* from the menu (the smooth scroll the anchor listener starts reaches the
\* page as later scroll events)
NavLinkClick(i) ==
    /\ i \in 1..Len(navLinks)
    /\ "navLinkClick" \in listeners
    /\ menuWasOpen' = hamburgerActive
    /\ hamburgerActive' = FALSE
    /\ navMenuActive' = IF hooks.navMenu THEN FALSE ELSE navMenuActive
    /\ lastOp' = [op |-> "navlink", card |-> 0]
    /\ UNCHANGED <<navVars, skillVars, carouselVars, histVars, hookVars, formVars, fadeVars, otherVars>>

\* -------------------------------------------------------- fade-in observer
\* what one observer callback can report: for some of the observed blocks,
\* whether each is intersecting
EntrySets(n) ==
    UNION {[S -> BOOLEAN] : S \in (SUBSET (1..n)) \ {{}}}

\* mutant: the callback removes 'visible' from a block that left the viewport
IntersectFollows(entries) ==
    /\ "fadeIn" \in listeners
    /\ fadeVisible' = [b \in 1..Len(fadeVisible) |->
                          IF b \in DOMAIN entries THEN entries[b] ELSE fadeVisible[b]]
    /\ lastEntries' = entries
    /\ lastOp' = [op |-> "intersect", card |-> 0]
    /\ UNCHANGED <<navVars, skillVars, carouselVars, histVars, hookVars, menuVars, formVars, otherVars>>

\* the IntersectionObserver callback: add 'visible' to every entry's target
\* that is intersecting
Intersect(entries) ==
    /\ "fadeIn" \in listeners
    /\ fadeVisible' = [b \in 1..Len(fadeVisible) |->
                          fadeVisible[b] \/ (b \in DOMAIN entries /\ entries[b])]
    /\ lastEntries' = entries
    /\ lastOp' = [op |-> "intersect", card |-> 0]
    /\ UNCHANGED <<navVars, skillVars, carouselVars, histVars, hookVars, menuVars, formVars, otherVars>>

\* ------------------------------------------------------- typing animation
\* mutant: typeWriter re-arms itself whether or not a character was left
TypeWriterTickRearms ==
    /\ typingTimer = "typeWriter"
    /\ typingTicks' = typingTicks + 1
    /\ IF typingI < Len(typingOriginal)
       THEN /\ typingShown' = Append(typingShown, typingOriginal[typingI + 1])
            /\ typingI' = typingI + 1
       ELSE UNCHANGED <<typingShown, typingI>>
    /\ typingTimer' = "typeWriter"
    /\ lastOp' = [op |-> "typeWriter", card |-> 0]
    /\ UNCHANGED <<typingOriginal, typingPosition, now, debounceVars, throttleVars>>
    /\ UNCHANGED <<navVars, skillVars, carouselVars, histVars, hookVars, menuVars, formVars, fadeVars>>

\* a run of typeWriter off its timeout: append text.charAt(i) and re-arm
\* while i < text.length, otherwise arm the cursor clean-up
TypeWriterTick ==
    /\ typingTimer = "typeWriter"
    /\ typingTicks' = typingTicks + 1
    /\ IF typingI < Len(typingOriginal)
       THEN /\ typingShown' = Append(typingShown, typingOriginal[typingI + 1])
            /\ typingI' = typingI + 1
            /\ typingTimer' = "typeWriter"
       ELSE /\ typingTimer' = "cursor"
            /\ UNCHANGED <<typingShown, typingI>>
    /\ lastOp' = [op |-> "typeWriter", card |-> 0]
    /\ UNCHANGED <<typingOriginal, typingPosition, now, debounceVars, throttleVars>>
    /\ UNCHANGED <<navVars, skillVars, carouselVars, histVars, hookVars, menuVars, formVars, fadeVars>>

\* the cursor clean-up: position becomes 'relative'; querySelector('::after')
\* matches no element, so nothing is hidden
CursorTimerFire ==
    /\ typingTimer = "cursor"
    /\ typingTimer' = "none"
    /\ typingPosition' = "relative"
    /\ lastOp' = [op |-> "cursor", card |-> 0]
    /\ UNCHANGED <<typingOriginal, typingShown, typingI, typingTicks, now,
                   debounceVars, throttleVars>>
    /\ UNCHANGED <<navVars, skillVars, carouselVars, histVars, hookVars, menuVars, formVars, fadeVars>>

\* --------------------------------------------------- debounce and throttle
pageVars == <<navVars, skillVars, carouselVars, histVars, hookVars, menuVars,
              formVars, fadeVars, typeVars>>

\* time passes; a timeout runs at or after its due time, never before
Tick ==
    /\ now < MaxTime
    /\ now' = now + 1
    /\ lastOp' = [op |-> "tick", card |-> 0]
    /\ UNCHANGED <<pageVars, debounceVars, throttleVars>>

\* mutant: a clearTimeout that cancels nothing
CancelTimerIgnored(timers, id) == timers

\* clearTimeout(id): the pending timeouts without the one named id
CancelTimer(timers, id) == {t \in timers : t.id # id}

\* debounce(func, wait): the wrapper is returned with timeout undefined
Debounce(wait) ==
    /\ ~debounced
    /\ debounced' = TRUE
    /\ debWait' = wait
    /\ debTimeout' = 0
    /\ lastOp' = [op |-> "debounce", card |-> 0]
    /\ UNCHANGED <<debTimers, debCalls, debLastCall, debInBurst, debBursts, debInvoked>>
    /\ UNCHANGED <<pageVars, now, throttleVars>>

\* a call of the wrapper: clearTimeout(timeout); timeout = setTimeout(later, wait)
DebouncedCall(args) ==
    /\ debounced
    /\ debCalls < MaxCalls
    /\ debCalls' = debCalls + 1
    /\ debTimeout' = debCalls + 1
    /\ debTimers' = CancelTimer(debTimers, debTimeout)
                        \cup {[id |-> debCalls + 1, due |-> now + debWait, args |-> args]}
    /\ debLastCall' = [args |-> args, at |-> now]
    /\ debInBurst' = TRUE
    /\ debBursts' = IF debInBurst THEN debBursts ELSE debBursts + 1
    /\ lastOp' = [op |-> "debouncedCall", card |-> 0]
    /\ UNCHANGED <<debounced, debWait, debInvoked>>
    /\ UNCHANGED <<pageVars, now, throttleVars>>

\* a pending timeout runs later(): clearTimeout(timeout); func(...args)
DebounceTimerFire ==
    /\ \E t \in debTimers :
        /\ t.due <= now
        /\ debTimers' = CancelTimer(debTimers \ {t}, debTimeout)
        /\ debInvoked' = Append(debInvoked, [args |-> t.args, at |-> now])
    /\ debInBurst' = FALSE
    /\ lastOp' = [op |-> "debounceFire", card |-> 0]
    /\ UNCHANGED <<debounced, debWait, debTimeout, debCalls, debLastCall, debBursts>>
    /\ UNCHANGED <<pageVars, now, throttleVars>>

\* throttle(func, limit): the wrapper is returned with inThrottle undefined
Throttle(limit) ==
    /\ ~throttled
    /\ throttled' = TRUE
    /\ thrLimit' = limit
    /\ inThrottle' = FALSE
    /\ lastOp' = [op |-> "throttle", card |-> 0]
    /\ UNCHANGED <<thrTimers, thrLog, thrInvoked>>
    /\ UNCHANGED <<pageVars, now, debounceVars>>

\* mutant: the wrapper forgets to set inThrottle
ThrottledCallNoFlag(args) ==
    /\ throttled
    /\ Len(thrLog) < MaxCalls
    /\ thrLog' = Append(thrLog, [args |-> args, at |-> now, open |-> inThrottle])
    /\ IF ~inThrottle
       THEN /\ thrInvoked' = Append(thrInvoked, [args |-> args, at |-> now])
            /\ inThrottle' = inThrottle
            /\ thrTimers' = Append(thrTimers, now + thrLimit)
       ELSE UNCHANGED <<thrInvoked, inThrottle, thrTimers>>
    /\ lastOp' = [op |-> "throttledCall", card |-> 0]
    /\ UNCHANGED <<throttled, thrLimit>>
    /\ UNCHANGED <<pageVars, now, debounceVars>>

\* a call of the wrapper: if (!inThrottle) { func.apply(context, args);
\* inThrottle = true; setTimeout(() => inThrottle = false, limit) }
ThrottledCall(args) ==
    /\ throttled
    /\ Len(thrLog) < MaxCalls
    /\ thrLog' = Append(thrLog, [args |-> args, at |-> now, open |-> inThrottle])
    /\ IF ~inThrottle
       THEN /\ thrInvoked' = Append(thrInvoked, [args |-> args, at |-> now])
            /\ inThrottle' = TRUE
            /\ thrTimers' = Append(thrTimers, now + thrLimit)
       ELSE UNCHANGED <<thrInvoked, inThrottle, thrTimers>>
    /\ lastOp' = [op |-> "throttledCall", card |-> 0]
    /\ UNCHANGED <<throttled, thrLimit>>
    /\ UNCHANGED <<pageVars, now, debounceVars>>

\* a pending timeout of the wrapper runs: inThrottle = false
ThrottleTimerFire ==
    /\ \E k \in 1..Len(thrTimers) :
        /\ thrTimers[k] <= now
        /\ thrTimers' = SubSeq(thrTimers, 1, k - 1) \o SubSeq(thrTimers, k + 1, Len(thrTimers))
    /\ inThrottle' = FALSE
    /\ lastOp' = [op |-> "throttleFire", card |-> 0]
    /\ UNCHANGED <<throttled, thrLimit, thrLog, thrInvoked>>
    /\ UNCHANGED <<pageVars, now, debounceVars>>

\* ---------------------------------------------------------- contact form
\* the submit button's label in the markup, and the one the handler shows
OriginalLabel == "Send Message"
PreparedLabel == "<i class=\"fas fa-check\"></i> Message Prepared!"
PreparedBackground == "#10b981"

EmptyFields == [name |-> << >>, email |-> << >>, subject |-> << >>, message |-> << >>]

\* what a user can type: a plain character, the query separator, the escape
FormChars == {"a", "&", "%"}

RECURSIVE FormStringsOfLen(_)
FormStringsOfLen(n) ==
    IF n = 0 THEN {<< >>}
    ELSE {<<c>> \o t : c \in FormChars, t \in FormStringsOfLen(n - 1)}

FieldValues == UNION {FormStringsOfLen(n) : n \in 0..MaxFieldLen}

FieldNames == {"name", "email", "subject", "message"}

\* the values a user types into one field of the form page
FillValues == {<< >>, <<"a">>}

\* mutant: no escaping at all
EncodeCharRaw(c) == <<c>>

\* encodeURIComponent on one character: letters, digits and - _ . ! ~ * ' ( )
\* stay, every other character becomes % and the two hex digits of its code
EncodeChar(c) ==
    CASE c = "%"  -> <<"%", "2", "5">>
      [] c = "&"  -> <<"%", "2", "6">>
      [] c = " "  -> <<"%", "2", "0">>
      [] c = "\n" -> <<"%", "0", "A">>
      [] c = ":"  -> <<"%", "3", "A">>
      [] c = "="  -> <<"%", "3", "D">>
      [] c = "?"  -> <<"%", "3", "F">>
      [] c = "@"  -> <<"%", "4", "0">>
      [] OTHER    -> <<c>>

\* encodeURIComponent: the characters' encodings, concatenated (the string
\* is halved at each step to keep the evaluation shallow)
RECURSIVE EncodeURIComponent(_)
EncodeURIComponent(str) ==
    IF str = << >> THEN << >>
    ELSE IF Len(str) = 1 THEN EncodeChar(str[1])
    ELSE LET half == Len(str) \div 2
         IN  EncodeURIComponent(SubSeq(str, 1, half))
                 \o EncodeURIComponent(SubSeq(str, half + 1, Len(str)))

\* `Name: ${name}\nEmail: ${email}\n\nMessage:\n${message}`
NameLabel == <<"N", "a", "m", "e", ":", " ">>
EmailLabel == <<"\n", "E", "m", "a", "i", "l", ":", " ">>
MessageLabel == <<"\n", "\n", "M", "e", "s", "s", "a", "g", "e", ":", "\n">>

BodyTemplate(f) ==
    NameLabel \o f.name \o EmailLabel \o f.email \o MessageLabel \o f.message

Recipient == "mailto:imriteshreddy1035@gmail.com"

\* the mailto link: the recipient, then ?subject=...&body=... with both
\* values passed through encodeURIComponent
MailtoLink(f) ==
    <<Recipient, "?", "subject", "=">> \o EncodeURIComponent(f.subject)
        \o <<"&", "body", "=">> \o EncodeURIComponent(BodyTemplate(f))

\* the user types value v into one field
Fill(field, v) ==
    /\ hooks.contactForm
    /\ formFields[field] # v
    /\ formFields' = [formFields EXCEPT ![field] = v]
    /\ lastOp' = [op |-> "fill", card |-> 0]
    /\ UNCHANGED <<fieldDefaults, buttonLabel, buttonBackground, resetTimers, locationHref>>
    /\ UNCHANGED <<navVars, skillVars, carouselVars, histVars, hookVars, menuVars, fadeVars, otherVars>>

\* the form's submit listener: build the link, hand it to the mail handler,
\* remember the button's label, show the confirmation, arm the 3000 ms reset
Submit ==
    /\ "submit" \in listeners
    /\ Len(resetTimers) < MaxPendingResets
    /\ locationHref' = MailtoLink(formFields)
    /\ resetTimers' = Append(resetTimers, buttonLabel)
    /\ buttonLabel' = PreparedLabel
    /\ buttonBackground' = PreparedBackground
    /\ lastOp' = [op |-> "submit", card |-> 0]
    /\ UNCHANGED <<formFields, fieldDefaults>>
    /\ UNCHANGED <<navVars, skillVars, carouselVars, histVars, hookVars, menuVars, fadeVars, otherVars>>

\* the oldest armed reset fires: restore the label it captured, clear the
\* background, reset the form to its default values
ResetTimerFire ==
    /\ resetTimers # << >>
    /\ buttonLabel' = Head(resetTimers)
    /\ buttonBackground' = ""
    /\ formFields' = fieldDefaults
    /\ resetTimers' = Tail(resetTimers)
    /\ lastOp' = [op |-> "reset", card |-> 0]
    /\ UNCHANGED <<fieldDefaults, locationHref>>
    /\ UNCHANGED <<navVars, skillVars, carouselVars, histVars, hookVars, menuVars, fadeVars, otherVars>>

\* ----------------------------------------------------------- initial state
\* the markup hooks the handler looks up; a missing one is null
HookMarkups == [hamburger : BOOLEAN, navMenu : BOOLEAN, navbar : BOOLEAN,
                typingText : BOOLEAN, contactForm : BOOLEAN]

AllHooks == [hamburger |-> TRUE, navMenu |-> TRUE, navbar |-> TRUE,
             typingText |-> TRUE, contactForm |-> TRUE]

\* the handler runs to its end unless a statement throws: the only call made
\* on an unchecked lookup during the run is hamburger.addEventListener
InitCompletes(hk) == hk.hamburger

\* the listeners and timers registered by the run, in source order; the
\* typing animation and the submit listener are guarded by their hooks
Registered(hk) ==
    IF ~InitCompletes(hk) THEN {}
    ELSE {"hamburgerClick", "navLinkClick", "navbarScroll", "updateActiveNav",
          "animateSkills", "carousel", "fadeIn", "scrollSettle"}
         \cup (IF hk.typingText THEN {"typeWriter"} ELSE {})
         \cup (IF hk.contactForm THEN {"submit"} ELSE {})

\* a card the handler never reached: nothing hidden, attached or started
NoSetup(card) ==
    [display  |-> IF card.hasImageNav THEN "" ELSE "absent",
     prevL    |-> FALSE,
     nextL    |-> FALSE,
     interval |-> FALSE]

\* the state once the script has been evaluated and the DOMContentLoaded
\* handler has run on a page with the given markup, scrolled to the top;
\* text is the content of the typing element
LoadPageText(hk, secs, links, bars, h, cds, nblocks, defaults, text) ==
    LET done == InitCompletes(hk)
        typing == done /\ hk.typingText
        noWidth == [i \in 1..Len(bars) |-> [set |-> FALSE, pct |-> 0]]
        noFlag == [i \in 1..Len(bars) |-> FALSE]
        setup == [c \in 1..Len(cds) |->
                     IF done THEN SetupCard(cds[c]) ELSE NoSetup(cds[c])]
    IN
    /\ hooks = hk
    /\ listeners = Registered(hk)
    /\ sections = secs
    /\ navLinks = links
    /\ linkActive = [i \in 1..Len(links) |-> FALSE]
    /\ scrollY = 0
    /\ navbarScrolled = FALSE
    /\ scrollTimer = "null"
    /\ settlePending = 0
    /\ settleRuns = 0
    /\ settleCancelled = FALSE
    /\ skillBars = bars
    /\ innerHeight = h
    /\ barWidth = IF done THEN AnimateSkillsWidth(bars, 0, h, noWidth, noFlag)
                  ELSE noWidth
    /\ barAnimated = IF done THEN AnimateSkillsFlag(bars, 0, h, noFlag) ELSE noFlag
    /\ cards = cds
    /\ currentImageIndex = [c \in 1..Len(cds) |-> 0]
    /\ imgActive = [c \in 1..Len(cds) |-> InitialImgActive(cds[c].n)]
    /\ imageNavDisplay = [c \in 1..Len(cds) |-> setup[c].display]
    /\ prevListener = [c \in 1..Len(cds) |-> setup[c].prevL]
    /\ nextListener = [c \in 1..Len(cds) |-> setup[c].nextL]
    /\ intervalSet = [c \in 1..Len(cds) |-> setup[c].interval]
    /\ ticks = [c \in 1..Len(cds) |-> 0]
    /\ nextClicks = [c \in 1..Len(cds) |-> 0]
    /\ prevClicks = [c \in 1..Len(cds) |-> 0]
    /\ oldIndex = [c \in 1..Len(cds) |-> 0]
    /\ hamburgerActive = FALSE
    /\ navMenuActive = FALSE
    /\ menuWasOpen = FALSE
    /\ formFields = defaults
    /\ fieldDefaults = defaults
    /\ buttonLabel = OriginalLabel
    /\ buttonBackground = ""
    /\ resetTimers = << >>
    /\ locationHref = << >>
    /\ fadeVisible = [b \in 1..nblocks |-> FALSE]
    /\ lastEntries = << >>
    /\ typingOriginal = text
    /\ typingShown = IF typing THEN << >> ELSE text
    /\ typingI = 0
    /\ typingTimer = IF typing THEN "typeWriter" ELSE "none"
    /\ typingPosition = ""
    /\ typingTicks = 0
    /\ now = 0
    /\ debounced = FALSE
    /\ debWait = 0
    /\ debTimeout = 0
    /\ debTimers = {}
    /\ debCalls = 0
    /\ debLastCall = [args |-> "", at |-> 0]
    /\ debInBurst = FALSE
    /\ debBursts = 0
    /\ debInvoked = << >>
    /\ throttled = FALSE
    /\ thrLimit = 0
    /\ inThrottle = FALSE
    /\ thrTimers = << >>
    /\ thrLog = << >>
    /\ thrInvoked = << >>
    /\ lastOp = [op |-> "init", card |-> 0]

\* the same on a page whose typing element is empty
LoadPage(hk, secs, links, bars, h, cds, nblocks, defaults) ==
    LoadPageText(hk, secs, links, bars, h, cds, nblocks, defaults, << >>)

\* a page with every hook present and no observed block
PageInit(secs, links, bars, h, cds) ==
    LoadPage(AllHooks, secs, links, bars, h, cds, 0, EmptyFields)

\* a page whose navigation markup varies and which has no cards or bars
InitNav ==
    \E secs \in SectionMarkups, links \in LinkMarkups :
        PageInit(secs, links, << >>, 0, << >>)

NextNav == (\E y \in ScrollOffsets : Scroll(y)) \/ ScrollTimerFire

SpecNav == InitNav /\ [][NextNav]_vars

\* a page with one card whose markup varies
InitCarousel ==
    \E card \in CardMarkups :
        PageInit(<<[id |-> <<"a">>, offsetTop |-> 0]>>,
                 <<[href |-> <<"#", "a">>]>>, << >>, 0, <<card>>)

NextCarousel ==
    \E c \in 1..Len(cards) : PrevClick(c) \/ NextClick(c) \/ TimerTick(c)

SpecCarousel == InitCarousel /\ [][NextCarousel]_vars

\* a page with two cards, each with all its controls and one to three images
TwoCardMarkups ==
    {cds \in [1..2 -> CardMarkups] :
        \A c \in 1..2 : cds[c].n \in 1..3 /\ cds[c].hasPrev /\ cds[c].hasNext}

InitCards ==
    \E cds \in TwoCardMarkups :
        PageInit(<<[id |-> <<"a">>, offsetTop |-> 0]>>,
                 <<[href |-> <<"#", "a">>]>>, << >>, 0, cds)

RECURSIVE SumSeq(_)
SumSeq(q) == IF q = << >> THEN 0 ELSE Head(q) + SumSeq(Tail(q))

\* the clicks and timer callbacks so far, over all cards
CardEvents == SumSeq(ticks) + SumSeq(nextClicks) + SumSeq(prevClicks)

NextCards ==
    /\ CardEvents < MaxCardEvents
    /\ \E c \in 1..Len(cards) : PrevClick(c) \/ NextClick(c) \/ TimerTick(c)

SpecCards == InitCards /\ [][NextCards]_vars

\* the skill bars: place in the document, height, data-progress
BarTops == {0, 150}
BarHeights == {10, 150}
BarProgress == {50, 90}
ViewportHeights == {100}

BarMarkups ==
    UNION {[1..k -> [top : BarTops, height : BarHeights, progress : BarProgress]] :
              k \in 1..MaxBars}

\* a page whose skill bars vary, with two sections and their links
InitSkills ==
    \E bars \in BarMarkups, h \in ViewportHeights :
        PageInit(<<[id |-> <<"a">>, offsetTop |-> 0], [id |-> <<"b">>, offsetTop |-> 300]>>,
                 <<[href |-> <<"#", "a">>], [href |-> <<"#", "b">>]>>, bars, h, << >>)

NextSkills == (\E y \in ScrollOffsets : Scroll(y)) \/ ScrollTimerFire

SpecSkills == InitSkills /\ [][NextSkills]_vars

\* the navigation of the pages below: two sections and their links
TwoSections == <<[id |-> <<"a">>, offsetTop |-> 0], [id |-> <<"b">>, offsetTop |-> 300]>>
TwoLinks == <<[href |-> <<"#", "a">>], [href |-> <<"#", "b">>]>>

\* a page on which any of the hooks, and either control of its two-image
\* card, may be missing
InitHooks ==
    \E hk \in HookMarkups, card \in CardMarkups :
        /\ card.n = 2 /\ card.hasImageNav
        /\ LoadPage(hk, TwoSections, TwoLinks, << >>, 0, <<card>>, 1, EmptyFields)

NextHooks ==
    \/ HamburgerClick
    \/ \E i \in 1..Len(navLinks) : NavLinkClick(i)
    \/ \E y \in ScrollOffsets : Scroll(y)
    \/ ScrollTimerFire
    \/ Submit
    \/ ResetTimerFire

SpecHooks == InitHooks /\ [][NextHooks]_vars

\* a page with observed blocks, a menu and scrolling
InitFade ==
    LoadPage(AllHooks, TwoSections, TwoLinks, << >>, 0, << >>, MaxBlocks, EmptyFields)

NextFade ==
    \/ \E entries \in EntrySets(Len(fadeVisible)) : Intersect(entries)
    \/ \E y \in ScrollOffsets : Scroll(y)
    \/ ScrollTimerFire
    \/ HamburgerClick
    \/ \E i \in 1..Len(navLinks) : NavLinkClick(i)

SpecFade == InitFade /\ [][NextFade]_vars

\* a page with a skill bar, a two-image card and the form, all in use
InitPage ==
    \E bars \in BarMarkups :
        /\ Len(bars) = 1
        /\ LoadPage(AllHooks, TwoSections, TwoLinks, bars, 100,
                    <<[n |-> 2, hasPrev |-> TRUE, hasNext |-> TRUE, hasImageNav |-> TRUE]>>,
                    0, EmptyFields)

NextPage ==
    \/ \E y \in ScrollOffsets : Scroll(y)
    \/ ScrollTimerFire
    \/ /\ CardEvents < MaxPageCardEvents
       /\ \E c \in 1..Len(cards) : PrevClick(c) \/ NextClick(c) \/ TimerTick(c)
    \/ \E v \in FillValues : Fill("name", v)
    \/ Submit
    \/ ResetTimerFire

SpecPage == InitPage /\ [][NextPage]_vars

\* the texts of the typing element
TypingTexts == UNION {StringsOfLen(n) : n \in 0..MaxTextLen}

\* a page whose typing element holds any of the texts; the animation runs
\* while the menu is used
InitTyping ==
    \E text \in TypingTexts :
        LoadPageText(AllHooks, TwoSections, TwoLinks, << >>, 0, << >>, 0, EmptyFields, text)

NextTyping ==
    \/ TypeWriterTick
    \/ CursorTimerFire
    \/ HamburgerClick
    \/ \E i \in 1..Len(navLinks) : NavLinkClick(i)

SpecTyping == InitTyping /\ [][NextTyping]_vars

\* an armed timeout fires: the browser runs every timer that stays armed
SpecTypingLive == SpecTyping /\ WF_vars(TypeWriterTick) /\ WF_vars(CursorTimerFire)

\* the script evaluated on a bare page; a function is wrapped by debounce
\* and the wrapper is called as time passes
InitUtil ==
    LoadPage(AllHooks, << >>, << >>, << >>, 0, << >>, 0, EmptyFields)

NextDebounce ==
    \/ \E wait \in Waits : Debounce(wait)
    \/ \E args \in CallArgs : DebouncedCall(args)
    \/ DebounceTimerFire
    \/ Tick

SpecDebounce == InitUtil /\ [][NextDebounce]_vars

\* the same for a function wrapped by throttle
NextThrottle ==
    \/ \E limit \in Waits : Throttle(limit)
    \/ \E args \in CallArgs : ThrottledCall(args)
    \/ ThrottleTimerFire
    \/ Tick

SpecThrottle == InitUtil /\ [][NextThrottle]_vars

\* a page whose form starts empty; the user types, submits and waits
InitForm ==
    PageInit(<<[id |-> <<"a">>, offsetTop |-> 0]>>,
             <<[href |-> <<"#", "a">>]>>, << >>, 0, << >>)

NextForm ==
    \/ \E field \in FieldNames, v \in FillValues : Fill(field, v)
    \/ Submit
    \/ ResetTimerFire

SpecForm == InitForm /\ [][NextForm]_vars

\* the fields of the specification's example submission
JaneFields == [name |-> <<"J", "a", "n", "e">>,
               email |-> <<"j", "a", "n", "e", "@", "x", ".", "c", "o", "m">>,
               subject |-> <<"H", "i">>,
               message |-> <<"H", "e", "l", "l", "o">>]

\* a page whose form holds the values to submit
InitCompose ==
    \E f \in [name : FieldValues, email : FieldValues, subject : FieldValues,
               message : FieldValues] \cup {JaneFields} :
        LoadPage(AllHooks, <<[id |-> <<"a">>, offsetTop |-> 0]>>,
                 <<[href |-> <<"#", "a">>]>>, << >>, 0, << >>, 0, f)

NextCompose == Submit \/ ResetTimerFire

SpecCompose == InitCompose /\ [][NextCompose]_vars

\* ------------------------------------------------- navigation claims
NavRan == lastOp.op \in {"scroll", "settle"}

\* the sections with (offsetTop - 200) <= scrollY
Qualifying == {k \in 1..Len(sections) :
                  sections[k].offsetTop - LookaheadThreshold <= scrollY}

LastQualifying == CHOOSE k \in Qualifying : \A j \in Qualifying : j <= k

ActiveLinks == {i \in 1..Len(navLinks) : linkActive[i]}

\* C1: after every run of updateActiveNav at most one navigation link
\* carries the 'active' marker
C1_AtMostOneActive == NavRan => Cardinality(ActiveLinks) <= 1

\* C2: when updateActiveNav has run at an offset where no section has
\* (top - 200) <= offset, every navigation link is inactive
C2_NoSectionAllInactive == (NavRan /\ Qualifying = {}) => ActiveLinks = {}

\* C3: when updateActiveNav has run and some section qualifies, exactly the
\* links whose target identifier equals the identifier of the last
\* qualifying section are active
C3_ActiveIsLastQualifying ==
    (NavRan /\ Qualifying # {}) =>
        \A i \in 1..Len(navLinks) :
            linkActive[i] <=>
                (TargetId(navLinks[i].href) = sections[LastQualifying].id)

\* C4: a link whose target identifier is the identifier of no section is
\* never active
C4_OrphanLinkNeverActive ==
    \A i \in 1..Len(navLinks) :
        (\A k \in 1..Len(sections) :
            TargetId(navLinks[i].href) # sections[k].id) => ~linkActive[i]

\* --------------------------------------------------- carousel claims
Rotating(c) == Card(c) /\ cards[c].n > 1

Static(c) == Card(c) /\ cards[c].n <= 1

\* C5: a carousel with N > 1 images has currentImageIndex in [0, N) in
\* every reachable state
C5_IndexInRange ==
    \A c \in 1..Len(cards) :
        Rotating(c) => currentImageIndex[c] \in 0..(cards[c].n - 1)

\* a previous click has wrapped the index from 0 to N - 1 after timer ticks
\* and next clicks
C5_Witness ==
    \E c \in 1..Len(cards) :
        /\ Rotating(c)
        /\ ticks[c] > 0 /\ nextClicks[c] > 0
        /\ lastOp = [op |-> "prev", card |-> c]
        /\ oldIndex[c] = 0
        /\ currentImageIndex[c] = cards[c].n - 1

\* C6: each next click sets the index to (index + 1) mod N and each previous
\* click to (index - 1 + N) mod N, so from index 0 next clicks alone visit
\* 0,1,...,N-1,0,... and previous clicks alone visit 0,N-1,...,1,0,...
C6_ClickCycles ==
    \A c \in 1..Len(cards) :
        Rotating(c) =>
            LET n == cards[c].n
                idx == currentImageIndex[c]
            IN  /\ lastOp = [op |-> "next", card |-> c] =>
                       idx = (oldIndex[c] + 1) % n
                /\ lastOp = [op |-> "prev", card |-> c] =>
                       idx = (oldIndex[c] - 1 + n) % n
                /\ (ticks[c] = 0 /\ prevClicks[c] = 0) =>
                       idx = nextClicks[c] % n
                /\ (ticks[c] = 0 /\ nextClicks[c] = 0) =>
                       idx = (n - (prevClicks[c] % n)) % n

\* three next clicks on a 3-image carousel are back at index 0
C6_Witness ==
    \E c \in 1..Len(cards) :
        /\ cards[c].n = 3
        /\ ticks[c] = 0 /\ prevClicks[c] = 0 /\ nextClicks[c] = 3
        /\ lastOp = [op |-> "next", card |-> c]
        /\ oldIndex[c] = 2
        /\ currentImageIndex[c] = 0

C8_AutoRotate ==
    \A c \in 1..Len(cards) :
        (Rotating(c) /\ nextClicks[c] = 0 /\ prevClicks[c] = 0) =>
            /\ currentImageIndex[c] = ticks[c] % cards[c].n
            /\ (cards[c].n = 4 /\ ticks[c] = 5) => currentImageIndex[c] = 1

\* a 4-image carousel, untouched, after 5 timer callbacks
C8_Witness ==
    \E c \in 1..Len(cards) :
        /\ cards[c].n = 4
        /\ nextClicks[c] = 0 /\ prevClicks[c] = 0
        /\ ticks[c] = 5
        /\ currentImageIndex[c] = 1

\* C9: clicks never cancel the interval: the timer stays registered and its
\* callback stays enabled, and after k ticks, m next clicks and p previous
\* clicks in any order the index is (k + m - p) mod N
C9_ClicksKeepTimer ==
    \A c \in 1..Len(cards) :
        Rotating(c) =>
            /\ intervalSet[c]
            /\ ticks[c] < MaxTicks => ENABLED TimerTick(c)
            /\ currentImageIndex[c] =
                   (ticks[c] + nextClicks[c] - prevClicks[c]) % cards[c].n

\* a timer callback has run right after next and previous clicks
C9_Witness ==
    \E c \in 1..Len(cards) :
        /\ Rotating(c)
        /\ nextClicks[c] > 0 /\ prevClicks[c] > 0 /\ ticks[c] > 1
        /\ lastOp = [op |-> "tick", card |-> c]
        /\ intervalSet[c]

C11_OtherCardsUnchanged ==
    [][\A c \in 1..Len(cards) :
          (PrevClick(c) \/ NextClick(c) \/ TimerTick(c)) =>
              \A d \in (1..Len(cards)) \ {c} :
                  /\ currentImageIndex'[d] = currentImageIndex[d]
                  /\ imgActive'[d] = imgActive[d]]_vars

\* card 1's timer has just fired while card 2 stays where its own next click
\* put it
C11_Witness ==
    /\ Len(cards) = 2
    /\ lastOp = [op |-> "tick", card |-> 1]
    /\ currentImageIndex[1] = 1
    /\ nextClicks[2] = 1 /\ ticks[2] = 0 /\ prevClicks[2] = 0
    /\ cards[2].n = 3
    /\ currentImageIndex[2] = 1 /\ imgActive[2] = <<FALSE, TRUE, FALSE>>

\* ------------------------------------------------------- form claims
\* C12: once every pending confirmation timer has fired, the submit button
\* shows the label it had before the first submission and the fields are empty
C12_LabelReverts ==
    (lastOp.op = "reset" /\ resetTimers = << >>) =>
        /\ buttonLabel = OriginalLabel
        /\ formFields = EmptyFields

\* the character an escape stands for, as the mail handler decodes it
Unescape(h1, h2) ==
    CASE <<h1, h2>> = <<"2", "5">> -> "%"
      [] <<h1, h2>> = <<"2", "6">> -> "&"
      [] <<h1, h2>> = <<"2", "0">> -> " "
      [] <<h1, h2>> = <<"0", "A">> -> "\n"
      [] <<h1, h2>> = <<"3", "A">> -> ":"
      [] <<h1, h2>> = <<"3", "D">> -> "="
      [] <<h1, h2>> = <<"3", "F">> -> "?"
      [] <<h1, h2>> = <<"4", "0">> -> "@"
      [] OTHER -> "malformed"

HexDigits == {"0", "1", "2", "3", "4", "5", "6", "7", "8", "9",
              "A", "B", "C", "D", "E", "F", "a", "b", "c", "d", "e", "f"}

\* every "%" is followed by two hex digits (otherwise the decoder fails)
WellEscaped(str) ==
    \A i \in 1..Len(str) :
        str[i] = "%" =>
            /\ i + 2 <= Len(str)
            /\ str[i + 1] \in HexDigits
            /\ str[i + 2] \in HexDigits

\* percent-decoding: each %XY becomes its character, the rest stays
PercentDecode(str) ==
    IF ~WellEscaped(str) THEN <<"malformed">>
    ELSE LET Kept(i) == ~(\/ (i > 1 /\ str[i - 1] = "%")
                          \/ (i > 2 /\ str[i - 2] = "%"))
             kept == SelectSeq([i \in 1..Len(str) |-> i], Kept)
         IN  [k \in 1..Len(kept) |->
                 IF str[kept[k]] = "%"
                 THEN Unescape(str[kept[k] + 1], str[kept[k] + 2])
                 ELSE str[kept[k]]]

\* the pieces of str between occurrences of sep
Split(str, sep) ==
    LET at == {i \in 1..Len(str) : str[i] = sep}
        \* the position of the j-th separator; 0 and Len + 1 close the ends
        Cut(j) == IF j = 0 THEN 0
                  ELSE IF j > Cardinality(at) THEN Len(str) + 1
                  ELSE CHOOSE q \in at : Cardinality({r \in at : r <= q}) = j
    IN  [j \in 1..(Cardinality(at) + 1) |-> SubSeq(str, Cut(j - 1) + 1, Cut(j) - 1)]

\* the headers of a mailto link: after "?", the "&"-separated key=value pairs
Headers(link) == Split(SubSeq(link, 3, Len(link)), "&")

\* the decoded values of the header named key, in order
HeaderValues(link, key) ==
    LET hs == Headers(link)
        idx == {i \in 1..Len(hs) :
                   Len(hs[i]) >= 2 /\ hs[i][1] = key /\ hs[i][2] = "="}
    IN  {PercentDecode(SubSeq(hs[i], 3, Len(hs[i]))) : i \in idx}

\* the example's body: Name: Jane / Email: jane@x.com / / Message: / Hello
JaneBody ==
    <<"N", "a", "m", "e", ":", " ", "J", "a", "n", "e", "\n",
    "E", "m", "a", "i", "l", ":", " ",
    "j", "a", "n", "e", "@", "x", ".",
    "c", "o", "m", "\n", "\n", "M", "e",
    "s", "s", "a", "g", "e", ":", "\n",
    "H", "e", "l", "l", "o">>

\* C13: the compose request of a submission is addressed to the fixed
\* recipient, carries the given subject, and its decoded body is exactly
\* "Name: {name}\nEmail: {email}\n\nMessage:\n{message}"
C13_ComposeRequest ==
    lastOp.op = "submit" =>
        /\ locationHref[1] = "mailto:imriteshreddy1035@gmail.com"
        /\ locationHref[2] = "?"
        /\ Len(Headers(locationHref)) = 2
        /\ HeaderValues(locationHref, "subject") = {formFields.subject}
        /\ HeaderValues(locationHref, "body") =
               {<<"N", "a", "m", "e", ":", " ">> \o formFields.name
                    \o <<"\n", "E", "m", "a", "i", "l", ":", " ">> \o formFields.email
                    \o <<"\n", "\n", "M", "e", "s", "s", "a", "g", "e", ":", "\n">> \o formFields.message}
        /\ formFields = JaneFields =>
               HeaderValues(locationHref, "body") = {JaneBody}

\* the example submission (Jane, jane@x.com, Hi, Hello) has been made
C13_Witness ==
    /\ lastOp.op = "submit"
    /\ formFields = JaneFields
    /\ HeaderValues(locationHref, "body") = {JaneBody}

\* ------------------------------------------------- skill and settle claims
Bar(i) == i \in 1..Len(skillBars)

\* the bar lies wholly inside the viewport at the current scroll offset
InViewport(i) ==
    /\ skillBars[i].top - scrollY >= 0
    /\ skillBars[i].top - scrollY + skillBars[i].height <= innerHeight

\* C14: a bar's animated flag never goes back to false, and once it is set
\* no run of animateSkills changes the bar's width
C14_AnimatedOnce ==
    [][\A i \in 1..Len(skillBars) :
          barAnimated[i] => (barAnimated'[i] /\ barWidth'[i] = barWidth[i])]_vars

\* an animated bar has been scrolled out of the viewport and keeps its width
C14_Witness ==
    \E i \in 1..Len(skillBars) :
        /\ lastOp.op = "scroll"
        /\ barAnimated[i] /\ ~InViewport(i)
        /\ barWidth[i] = [set |-> TRUE, pct |-> skillBars[i].progress]

\* C15: a run of animateSkills marks a bar that is not yet animated (and
\* gives it its target width) exactly when top >= 0 and bottom <= viewport
\* height at that moment; a bar taller than the viewport is never animated
C15_AnimatedIffVisible ==
    /\ [](\A i \in 1..Len(skillBars) :
            /\ lastOp.op = "init" => (barAnimated[i] <=> InViewport(i))
            /\ skillBars[i].height > innerHeight => ~barAnimated[i]
            /\ ~barAnimated[i] => ~barWidth[i].set)
    /\ [][\A i \in 1..Len(skillBars) :
            ~barAnimated[i] =>
                /\ barAnimated'[i] <=> InViewport(i)'
                /\ barAnimated'[i] =>
                       barWidth'[i] = [set |-> TRUE, pct |-> skillBars[i].progress]
                /\ ~barAnimated'[i] => barWidth'[i] = barWidth[i]]_vars

\* after a scroll a bar taller than the viewport overlaps it and is not
\* animated, while a bar inside the viewport has just been animated
C15_Witness ==
    \E i, j \in 1..Len(skillBars) :
        /\ lastOp.op = "scroll"
        /\ skillBars[i].height > innerHeight /\ ~barAnimated[i]
        /\ skillBars[i].top - scrollY < innerHeight
        /\ skillBars[i].top - scrollY + skillBars[i].height > 0
        /\ skillBars[j].top > innerHeight
        /\ InViewport(j) /\ barAnimated[j]

C17_InitSurvivesMissingHook ==
    /\ {"updateActiveNav", "animateSkills", "carousel", "fadeIn", "scrollSettle"}
           \subseteq listeners
    /\ hooks.contactForm => "submit" \in listeners
    /\ \A c \in 1..Len(cards) : cards[c].n > 1 => intervalSet[c]

\* C18: a block marked 'visible' stays visible at every later step, whatever
\* a later observer callback reports and whichever handler runs
C18_VisibleForever ==
    [][\A b \in 1..Len(fadeVisible) : fadeVisible[b] => fadeVisible'[b]]_vars

\* the last callback reported a visible block as not intersecting
C18_Witness ==
    \E b \in 1..Len(fadeVisible) :
        /\ lastOp.op = "intersect"
        /\ b \in DOMAIN lastEntries /\ ~lastEntries[b]
        /\ fadeVisible[b]

C20_MenuInStep ==
    (hooks.hamburger /\ hooks.navMenu) =>
        /\ hamburgerActive = navMenuActive
        /\ lastOp.op = "hamburger" => hamburgerActive = ~menuWasOpen
        /\ lastOp.op = "navlink" => ~hamburgerActive

\* a navigation-link click has closed an open menu
C20_Witness ==
    /\ hooks.hamburger /\ hooks.navMenu
    /\ lastOp.op = "navlink"
    /\ menuWasOpen
    /\ ~hamburgerActive /\ ~navMenuActive

\* ------------------------------------------------ typing and utility claims
IsPrefix(p, t) == Len(p) <= Len(t) /\ p = SubSeq(t, 1, Len(p))

\* C21 as stated: the shown text is a prefix of the original, every run of
\* typeWriter has added one character, and once the text is complete no
\* run of typeWriter is armed
C21_TypingAsStated ==
    /\ IsPrefix(typingShown, typingOriginal)
    /\ Len(typingShown) = typingTicks
    /\ typingShown = typingOriginal => typingTimer # "typeWriter"

\* C21: the shown text is always the prefix of the original of length i;
\* every run of typeWriter but the last adds exactly the next character;
\* the last run, made with the text complete, adds nothing and arms only
\* the cursor clean-up; the text eventually is, and stays, the full
\* original with no run of typeWriter armed
C21_TypingTerminates ==
    /\ [](/\ IsPrefix(typingShown, typingOriginal)
          /\ Len(typingShown) = typingI
          /\ typingTimer = "typeWriter" => typingTicks = typingI
          /\ typingTimer # "typeWriter" =>
                 typingShown = typingOriginal /\ typingTicks = typingI + 1)
    /\ [][TypeWriterTick =>
              /\ typingI < Len(typingOriginal) =>
                     typingShown' = Append(typingShown, typingOriginal[typingI + 1])
              /\ typingI = Len(typingOriginal) =>
                     typingShown' = typingShown /\ typingTimer' = "cursor"]_vars
    /\ <>[](typingShown = typingOriginal /\ typingTimer = "none")

\* a full-length text has been typed out and the animation has ended
C21_Witness ==
    /\ Len(typingOriginal) = MaxTextLen
    /\ typingShown = typingOriginal
    /\ typingTicks = MaxTextLen + 1
    /\ typingTimer = "none"
    /\ typingPosition = "relative"

Last(q) == q[Len(q)]

\* C22: the debounced wrapper has at most one timeout pending; a call
\* leaves exactly the timeout it armed, due wait after the call; func runs
\* no sooner than wait after the most recent call, with that call's
\* arguments, and once per burst of calls
C22_DebounceOncePerBurst ==
    /\ Cardinality(debTimers) <= 1
    /\ lastOp.op = "debouncedCall" =>
           debTimers = {[id |-> debTimeout, due |-> debLastCall.at + debWait,
                         args |-> debLastCall.args]}
    /\ lastOp.op = "debounceFire" =>
           /\ Last(debInvoked).args = debLastCall.args
           /\ Last(debInvoked).at >= debLastCall.at + debWait
    /\ debInBurst => Len(debInvoked) = debBursts - 1 /\ Cardinality(debTimers) = 1
    /\ ~debInBurst => Len(debInvoked) = debBursts /\ debTimers = {}

\* func has just run for a burst of several calls whose arguments differed,
\* after an earlier burst
C22_Witness ==
    /\ lastOp.op = "debounceFire"
    /\ debCalls = MaxCalls
    /\ debBursts = 2
    /\ Len(debInvoked) = 2
    /\ debInvoked[1].args # debInvoked[2].args

\* the calls of the throttled wrapper made while no window was open
ThrottleAccepted ==
    LET idx == {k \in 1..Len(thrLog) : ~thrLog[k].open}
        pos(j) == CHOOSE k \in idx : Cardinality({m \in idx : m < k}) = j - 1
    IN [j \in 1..Cardinality(idx) |->
           [args |-> thrLog[pos(j)].args, at |-> thrLog[pos(j)].at]]

=============================================================================
